---------------------------- MODULE Spec2Model ----------------------------
(***************************************************************************)
(* Model of the sentiment analyzer: the FastAPI request handler of         *)
(* backend/main.py (health_check, analyze_sentiment) and the result        *)
(* rendering of the Streamlit client frontend/app.py.                      *)
(*                                                                         *)
(* Python strings are modelled as sequences of one-character strings, so   *)
(* that strip(), re.search(..., re.IGNORECASE), capitalize(), slicing and  *)
(* the `in` operator are computed character by character.                  *)
(***************************************************************************)
EXTENDS Integers, Sequences, FiniteSets, TLC

VARIABLES
    MODEL_NAME,   \* the process-wide selected model (module global)
    workers,      \* the request threads that serve requests in this run
    pc,           \* per worker: position inside analyze_sentiment
    text,         \* per worker: the form field of the request being served
    probe,        \* per worker: what GET /api/tags did in this call
    selected,     \* per worker: MODEL_NAME as this call's selection step left it
    request,      \* per worker: the JSON posted to /api/generate in this call
    generated,    \* per worker: what POST /api/generate did in this call
    calls,        \* per worker: network calls and downloads made by this call
    response,     \* per worker: the HTTP response of /analyze/ for this call
    style         \* per worker: the styling the client chose for the response

vars ==
    << MODEL_NAME, workers, pc, text, probe, selected, request, generated,
       calls, response, style >>

(***************************************************************************)
(* Bounds of the model.                                                    *)
(***************************************************************************)
NumWorkers == 2

MaxParts == 2

(***************************************************************************)
(* String literals of the source.                                          *)
(***************************************************************************)
MsgNoText ==
    << "P", "l", "e", "a", "s", "e", " ", "p", "r", "o", "v", "i", "d", "e", " ", "s", "o", "m", "e",
       " ", "t", "e", "x", "t", " ", "t", "o", " ", "a", "n", "a", "l", "y", "z", "e" >>

MsgNotRunning ==
    << "E", "r", "r", "o", "r", ":", " ", "O", "l", "l", "a", "m", "a", " ", "i", "s", " ", "n", "o",
       "t", " ", "r", "u", "n", "n", "i", "n", "g", ".", " ", "S", "t", "a", "r", "t", " ", "w", "i",
       "t", "h", " ", "'", "o", "l", "l", "a", "m", "a", " ", "s", "e", "r", "v", "e", "'" >>

MsgUnable ==
    << "E", "r", "r", "o", "r", ":", " ", "U", "n", "a", "b", "l", "e", " ", "t", "o", " ", "a", "n",
       "a", "l", "y", "z", "e", " ", "s", "e", "n", "t", "i", "m", "e", "n", "t" >>

MsgCannotConnect ==
    << "E", "r", "r", "o", "r", ":", " ", "C", "a", "n", "n", "o", "t", " ", "c", "o", "n", "n", "e",
       "c", "t", " ", "t", "o", " ", "O", "l", "l", "a", "m", "a", ".", " ", "R", "u", "n", " ", "'",
       "o", "l", "l", "a", "m", "a", " ", "s", "e", "r", "v", "e", "'", " ", "i", "n", " ", "a", " ",
       "t", "e", "r", "m", "i", "n", "a", "l" >>

MsgRequestError ==
    << "E", "r", "r", "o", "r", " ", "c", "o", "n", "n", "e", "c", "t", "i", "n", "g", " ", "t", "o",
       " ", "O", "l", "l", "a", "m", "a", " ", "A", "P", "I" >>

MsgUnexpected ==
    << "U", "n", "e", "x", "p", "e", "c", "t", "e", "d", " ", "e", "r", "r", "o", "r", " ", "o", "c",
       "c", "u", "r", "r", "e", "d" >>

PromptHead ==
    << "A", "n", "a", "l", "y", "z", "e", " ", "t", "h", "e", " ", "s", "e", "n", "t", "i", "m", "e",
       "n", "t", " ", "o", "f", " ", "t", "h", "e", " ", "f", "o", "l", "l", "o", "w", "i", "n", "g",
       " ", "t", "e", "x", "t", " ", "a", "n", "d", " ", "r", "e", "s", "p", "o", "n", "d", " ", "w",
       "i", "t", "h", " ", "E", "X", "A", "C", "T", "L", "Y", " ", "O", "N", "E", " ", "W", "O", "R",
       "D", " ", "(", "P", "o", "s", "i", "t", "i", "v", "e", ",", " ", "N", "e", "g", "a", "t", "i",
       "v", "e", ",", " ", "o", "r", " ", "N", "e", "u", "t", "r", "a", "l", ")", ".", "\n", "T", "e",
       "x", "t", ":", " " >>

PromptTail ==
    << "\n", "S", "e", "n", "t", "i", "m", "e", "n", "t", ":" >>

DownloadHead ==
    << "M", "o", "d", "e", "l", " " >>

DownloadTail ==
    << " ", "n", "o", "t", " ", "f", "o", "u", "n", "d", ".", " ", "A", "t", "t", "e", "m", "p", "t",
       "i", "n", "g", " ", "t", "o", " ", "d", "o", "w", "n", "l", "o", "a", "d", " ", "i", "t", " ",
       "n", "o", "w", ".", " ", "P", "l", "e", "a", "s", "e", " ", "t", "r", "y", " ", "a", "g", "a",
       "i", "n", " ", "i", "n", " ", "a", " ", "m", "i", "n", "u", "t", "e", "." >>

PullHead ==
    << "E", "r", "r", "o", "r", ":", " ", "M", "o", "d", "e", "l", " ", "n", "o", "t", " ", "f", "o",
       "u", "n", "d", ".", " ", "R", "u", "n", " ", "'", "o", "l", "l", "a", "m", "a", " ", "p", "u",
       "l", "l", " " >>

PullTail ==
    << "'", " ", "i", "n", " ", "a", " ", "t", "e", "r", "m", "i", "n", "a", "l" >>

Phi ==
    << "p", "h", "i" >>

TinyLlama ==
    << "t", "i", "n", "y", "l", "l", "a", "m", "a" >>

Gemma2b ==
    << "g", "e", "m", "m", "a", ":", "2", "b" >>

Llama2 ==
    << "l", "l", "a", "m", "a", "2" >>

Positive ==
    << "P", "o", "s", "i", "t", "i", "v", "e" >>

Negative ==
    << "N", "e", "g", "a", "t", "i", "v", "e" >>

Neutral ==
    << "N", "e", "u", "t", "r", "a", "l" >>

ErrorWord ==
    << "E", "r", "r", "o", "r" >>

ModelNotFound ==
    << "m", "o", "d", "e", "l", " ", "n", "o", "t", " ", "f", "o", "u", "n", "d" >>

UpperCase ==
    << "A", "B", "C", "D", "E", "F", "G", "H", "I", "J", "K", "L", "M", "N", "O", "P", "Q", "R", "S",
       "T", "U", "V", "W", "X", "Y", "Z" >>

LowerCase ==
    << "a", "b", "c", "d", "e", "f", "g", "h", "i", "j", "k", "l", "m", "n", "o", "p", "q", "r", "s",
       "t", "u", "v", "w", "x", "y", "z" >>

\* U+017F, LATIN SMALL LETTER LONG S: a character outside ASCII that
\* re.IGNORECASE treats as a case variant of "s".
LongS == "U+017F"

FallbackLen == 50

Min(S) == CHOOSE x \in S : \A y \in S : x <= y

Max(S) == CHOOSE x \in S : \A y \in S : x >= y

(***************************************************************************)
(* Python string operations used by the handler and by the client.         *)
(***************************************************************************)
IsSpaceBlankOnly(ch) == ch = " "

\* str.isspace for the characters of the model
IsSpace(ch) == ch \in {" ", "\t", "\n"}

\* str.strip(): drops leading and trailing whitespace
Strip(s) ==
    LET keep == {i \in 1..Len(s) : ~IsSpace(s[i])}
    IN  IF keep = {} THEN << >> ELSE SubSeq(s, Min(keep), Max(keep))

\* the case mappings of the ASCII letters
LowerOf ==
    [ch \in {UpperCase[i] : i \in 1..Len(UpperCase)} |->
        LowerCase[CHOOSE i \in 1..Len(UpperCase) : UpperCase[i] = ch]]

UpperOf ==
    [ch \in {LowerCase[i] : i \in 1..Len(LowerCase)} |->
        UpperCase[CHOOSE i \in 1..Len(LowerCase) : LowerCase[i] = ch]]

ToLower(ch) == IF ch \in DOMAIN LowerOf THEN LowerOf[ch] ELSE ch

ToUpper(ch) ==
    IF ch \in DOMAIN UpperOf THEN UpperOf[ch]
    ELSE IF ch = LongS THEN "S" ELSE ch

\* str.lower()
Lower(s) == [i \in 1..Len(s) |-> ToLower(s[i])]

\* s[:n]
Prefix(s, n) == SubSeq(s, 1, IF Len(s) < n THEN Len(s) ELSE n)

\* `sub in s` for strings
Contains(s, sub) ==
    \E i \in 1..(Len(s) - Len(sub) + 1) : SubSeq(s, i, i + Len(sub) - 1) = sub

\* `x in xs` for lists
InList(x, xs) == \E i \in 1..Len(xs) : xs[i] = x

CapitalizeNoop(s) == s

\* str.capitalize(): first character upper case, the rest lower case
Capitalize(s) ==
    IF s = << >> THEN s ELSE << ToUpper(s[1]) >> \o Lower(Tail(s))

\* one pattern character against one subject character under re.IGNORECASE
CaseEq(ch, p) ==
    \/ ToLower(ch) = ToLower(p)
    \/ ToLower(p) = "s" /\ ch = LongS

\* the alternatives of r'(Positive|Negative|Neutral)', in pattern order
Keywords == << Positive, Negative, Neutral >>

MatchAt(s, kw, i) ==
    /\ i + Len(kw) - 1 <= Len(s)
    /\ \A j \in 1..Len(kw) : CaseEq(s[i + j - 1], kw[j])

NoMatch == << "None" >>

\* re.search(r'(Positive|Negative|Neutral)', s, re.IGNORECASE).group(0):
\* the leftmost position where an alternative matches, first alternative first
Search(s) ==
    LET hits == {i \in 1..Len(s) : \E k \in 1..Len(Keywords) : MatchAt(s, Keywords[k], i)}
    IN  IF hits = {} THEN NoMatch
        ELSE LET i == Min(hits)
                 k == Min({n \in 1..Len(Keywords) : MatchAt(s, Keywords[n], i)})
             IN  SubSeq(s, i, i + Len(Keywords[k]) - 1)

(***************************************************************************)
(* JSON values: an object is a function from its keys, a string is         *)
(* [str |-> characters], a number is [num |-> n], a list is a sequence.    *)
(***************************************************************************)
Str(s) == [str |-> s]

IsStr(v) == "str" \in DOMAIN v

HasKey(obj, k) == k \in DOMAIN obj

\* the body of a normal reply of /analyze/
Ok(sentiment) == [status |-> 200, sentiment |-> sentiment]

\* the body of the reply of GET /
Health(model) == [status |-> 200, health |-> "ok", model |-> model]

\* what FastAPI answers when the handler raises
ServerError == [status |-> 500]

(***************************************************************************)
(* Exception classes of requests and of the interpreter, with their bases. *)
(***************************************************************************)
Bases ==
    [ ConnectionError  |-> {"ConnectionError", "RequestException", "Exception"},
      ConnectTimeout   |-> {"ConnectTimeout", "ConnectionError", "Timeout",
                            "RequestException", "Exception"},
      ReadTimeout      |-> {"ReadTimeout", "Timeout", "RequestException", "Exception"},
      HTTPError        |-> {"HTTPError", "RequestException", "Exception"},
      JSONDecodeError  |-> {"JSONDecodeError", "RequestException", "ValueError", "Exception"},
      ValueError       |-> {"ValueError", "Exception"},
      KeyError         |-> {"KeyError", "Exception"},
      AttributeError   |-> {"AttributeError", "Exception"} ]

IsA(cls, base) == base \in Bases[cls]

Raise(cls, msg) == [kind |-> "raise", cls |-> cls, msg |-> msg]

\* an HTTP reply of the model server; body is a JSON object, or Undecodable
Reply(status, reason, body) ==
    [kind |-> "reply", status |-> status, reason |-> reason, body |-> body]

\* a body for which Response.json() raises cls
Undecodable(cls) == [undecodable |-> cls]

NoMsg == << >>

ClientErrorHead ==
    << "C", "l", "i", "e", "n", "t", " ", "E", "r", "r", "o", "r", ":", " " >>

ServerErrorHead ==
    << "S", "e", "r", "v", "e", "r", " ", "E", "r", "r", "o", "r", ":", " " >>

ForUrlTail ==
    << " ", "f", "o", "r", " ", "u", "r", "l", ":", " ", "/", "a", "p", "i", "/", "g", "e", "n", "e",
       "r", "a", "t", "e" >>

\* str(e) of the HTTPError that Response.raise_for_status() raises
HTTPErrorMsg(o) ==
    (IF o.status < 500 THEN ClientErrorHead ELSE ServerErrorHead) \o o.reason \o ForUrlTail

(***************************************************************************)
(* analyze_sentiment, piece by piece.                                      *)
(***************************************************************************)
\* the candidates of the selection loop, in order
Priority == << Phi, TinyLlama, Gemma2b, Llama2 >>

\* f-string of the prompt
Prompt(t) == PromptHead \o t \o PromptTail

\* f-string returned after the download was started
MsgDownloading(m) == DownloadHead \o m \o DownloadTail

\* f-string returned when the download could not be started
MsgPullManually(m) == PullHead \o m \o PullTail

\* models = check_response.json().get("models", [])
ModelsOf(body) == IF HasKey(body, "models") THEN body.models ELSE << >>

SelectLastMatch(available, current) ==
    LET hits == {i \in 1..Len(Priority) : InList(Priority[i], available)}
    IN  IF hits = {} THEN current ELSE Priority[Max(hits)]

SelectAnyAvailable(available, current) ==
    IF available = << >> THEN current ELSE available[1]

\* the for loop over the candidates: the first candidate in available_models
\* becomes MODEL_NAME, otherwise MODEL_NAME is left as it is
SelectModel(available, current) ==
    LET hits == {i \in 1..Len(Priority) : InList(Priority[i], available)}
    IN  IF hits = {} THEN current ELSE Priority[Min(hits)]

ProbeTryIgnoresBadBody(o, current) ==
    IF o.kind = "raise"
    THEN [raised |-> TRUE, model |-> current]
    ELSE IF o.status # 200 \/ HasKey(o.body, "undecodable")
    THEN [raised |-> FALSE, model |-> current]
    ELSE LET models == ModelsOf(o.body)
         IN  IF \E i \in 1..Len(models) : ~HasKey(models[i], "name")
             THEN [raised |-> TRUE, model |-> current]
             ELSE [raised |-> FALSE,
                   model  |-> SelectModel([i \in 1..Len(models) |-> models[i].name], current)]

\* the first try block: the probe and the selection.  raised: an exception
\* reached the except clause; model: MODEL_NAME when the block is left
ProbeTry(o, current) ==
    IF o.kind = "raise"
    THEN [raised |-> TRUE, model |-> current]
    ELSE IF o.status # 200
    THEN [raised |-> FALSE, model |-> current]
    ELSE IF HasKey(o.body, "undecodable")
    THEN [raised |-> TRUE, model |-> current]
    ELSE LET models == ModelsOf(o.body)
         IN  IF \E i \in 1..Len(models) : ~HasKey(models[i], "name")
             THEN [raised |-> TRUE, model |-> current]
             ELSE [raised |-> FALSE,
                   model  |-> SelectModel([i \in 1..Len(models) |-> models[i].name], current)]

ExtractNoStrip(result) ==
    IF ~HasKey(result, "response") THEN [kind |-> "return", response |-> Ok(MsgUnable)]
    ELSE IF ~IsStr(result.response) THEN Raise("AttributeError", NoMsg)
    ELSE IF Search(result.response.str) # NoMatch
         THEN [kind |-> "return", response |-> Ok(Capitalize(Search(result.response.str)))]
         ELSE [kind |-> "return", response |-> Ok(Prefix(result.response.str, FallbackLen))]

\* the extraction: from the parsed reply to the returned value, or to the
\* exception raised on the way
Extract(result) ==
    IF ~HasKey(result, "response")
    THEN [kind |-> "return", response |-> Ok(MsgUnable)]
    ELSE IF ~IsStr(result.response)
    THEN Raise("AttributeError", NoMsg)
    ELSE LET raw_sentiment   == Strip(result.response.str)
             sentiment_match == Search(raw_sentiment)
         IN  IF sentiment_match # NoMatch
             THEN [kind |-> "return", response |-> Ok(Capitalize(sentiment_match))]
             ELSE [kind |-> "return", response |-> Ok(Prefix(raw_sentiment, FallbackLen))]

\* the second try block after requests.post returned or raised
GenerateTry(o) ==
    IF o.kind = "raise" THEN o
    ELSE IF o.status >= 400 THEN Raise("HTTPError", HTTPErrorMsg(o))
    ELSE IF HasKey(o.body, "undecodable") THEN Raise(o.body.undecodable, NoMsg)
    ELSE Extract(o.body)

Return(r) == [next |-> "done", response |-> r]

NoResponse == [status |-> 0]

HandlerWithoutCatchAll(e) ==
    IF IsA(e.cls, "ConnectionError") THEN Return(Ok(MsgCannotConnect))
    ELSE IF IsA(e.cls, "RequestException")
    THEN IF Contains(Lower(e.msg), ModelNotFound)
         THEN [next |-> "pull", response |-> NoResponse]
         ELSE Return(Ok(MsgRequestError))
    ELSE Return(ServerError)

HandlerPullsOnAnyError(e) ==
    IF IsA(e.cls, "RequestException")
    THEN [next |-> "pull", response |-> NoResponse]
    ELSE Return(Ok(MsgUnexpected))

\* the except clauses of the second try block, in order
Handler(e) ==
    IF IsA(e.cls, "ConnectionError") THEN Return(Ok(MsgCannotConnect))
    ELSE IF IsA(e.cls, "RequestException")
    THEN IF Contains(Lower(e.msg), ModelNotFound)
         THEN [next |-> "pull", response |-> NoResponse]
         ELSE Return(Ok(MsgRequestError))
    ELSE IF IsA(e.cls, "Exception") THEN Return(Ok(MsgUnexpected))
    ELSE Return(ServerError)

RenderIgnoresError(r) ==
    IF r.status # 200 THEN "error"
    ELSE IF HasKey(r, "health") THEN "online"
    ELSE IF r.sentiment = Positive THEN "success"
    ELSE IF r.sentiment = Negative THEN "error"
    ELSE IF r.sentiment = Neutral THEN "info"
    ELSE "warning"

\* the client's choice of styling: for the reply of GET / the status line of
\* the page, for the reply of /analyze/ the mapping of the Analyze button
Render(r) ==
    IF r.status # 200 THEN "error"
    ELSE IF HasKey(r, "health") THEN "online"
    ELSE IF r.sentiment = Positive THEN "success"
    ELSE IF r.sentiment = Negative THEN "error"
    ELSE IF r.sentiment = Neutral THEN "info"
    ELSE IF Contains(r.sentiment, ErrorWord) THEN "error"
    ELSE "warning"

(***************************************************************************)
(* What clients and the model server may send.  With one request thread    *)
(* the pools are wide; with several threads they are reduced to the cases  *)
(* that tell the interleavings apart.                                      *)
(***************************************************************************)
Concurrent == Cardinality(workers) > 1

Mistral ==
    << "m", "i", "s", "t", "r", "a", "l" >>

PhiLatest ==
    << "p", "h", "i", ":", "l", "a", "t", "e", "s", "t" >>

GreatProduct ==
    << "G", "r", "e", "a", "t", " ", "p", "r", "o", "d", "u", "c", "t" >>

Filler ==
    << "a", "b", "c", "d", "e", "f", "g", "h", "i", "j", "k", "l", "m", "n", "o", "p", "q", "r", "s",
       "t", "u", "v", "w", "x", "y", "z", "0", "1", "2", "3" >>

NotFound ==
    << "N", "o", "t", " ", "F", "o", "u", "n", "d" >>

ModelNotFoundTitle ==
    << "M", "o", "d", "e", "l", " ", "N", "o", "t", " ", "F", "o", "u", "n", "d" >>

ModelPhiNotFound ==
    << "m", "o", "d", "e", "l", " ", "'", "p", "h", "i", "'", " ", "n", "o", "t", " ", "f", "o", "u",
       "n", "d" >>

ConnectionRefused ==
    << "C", "o", "n", "n", "e", "c", "t", "i", "o", "n", " ", "r", "e", "f", "u", "s", "e", "d" >>

ReadTimedOut ==
    << "R", "e", "a", "d", " ", "t", "i", "m", "e", "d", " ", "o", "u", "t" >>

\* an entry of the "models" list of /api/tags
Entry(name) == [name |-> name]

TextsWide ==
    { << >>, << " " >>, << "\n", " ", "\t" >>, << " ", "o", "k", "\n" >>, GreatProduct }

TextsNarrow == { << " " >>, << "o", "k" >> }

\* the form field `text`
Texts == IF Concurrent THEN TextsNarrow ELSE TextsWide

ProbeOutcomesWide ==
    { Raise("ConnectionError", ConnectionRefused),
      Raise("ReadTimeout", ReadTimedOut),
      Reply(503, NoMsg, [models |-> << Entry(Llama2) >>]),
      Reply(200, NoMsg, Undecodable("JSONDecodeError")),
      Reply(200, NoMsg, [models |-> << Entry(Phi), [size |-> [num |-> 1]] >>]),
      Reply(200, NoMsg, [error |-> Str(NotFound)]),
      Reply(200, NoMsg, [models |-> << >>]),
      Reply(200, NoMsg, [models |-> << Entry(Mistral), Entry(PhiLatest) >>]),
      Reply(200, NoMsg, [models |-> << Entry(TinyLlama), Entry(Mistral) >>]),
      Reply(200, NoMsg, [models |-> << Entry(Llama2), Entry(Gemma2b) >>]),
      Reply(200, NoMsg, [models |-> << Entry(Mistral), Entry(Llama2) >>]),
      Reply(200, NoMsg, [models |-> << Entry(TinyLlama), Entry(Phi) >>]) }

ProbeOutcomesNarrow ==
    { Raise("ConnectionError", ConnectionRefused),
      Reply(200, NoMsg, [models |-> << Entry(TinyLlama) >>]),
      Reply(200, NoMsg, [models |-> << Entry(Phi), Entry(TinyLlama) >>]) }

\* what GET /api/tags may do
ProbeOutcomes == IF Concurrent THEN ProbeOutcomesNarrow ELSE ProbeOutcomesWide

\* the fragments the replies of the language model are put together from
Pieces ==
    << Neutral, << "N", "E", "U" >>, << "t", "r", "a", "l" >>,
       << "p", "o", "s", "i", "t", "i", "v", "e" >>, Negative,
       << "p", "o", LongS, "i", "t", "i", "v", "e" >>,
       << " " >>, << " " >> \o Filler, ErrorWord, << ":", " ", "x" >> >>

RECURSIVE Join(_)
Join(ps) == IF ps = << >> THEN << >> ELSE Pieces[Head(ps)] \o Join(Tail(ps))

\* the "response" strings of /api/generate: up to MaxParts fragments
Replies ==
    { Join(ps) : ps \in UNION { [1..n -> 1..Len(Pieces)] : n \in 0..MaxParts } }

GenerateOutcomesWide ==
    { Raise("ConnectionError", ConnectionRefused),
      Raise("ConnectionError", ModelNotFound),
      Raise("ConnectTimeout", ReadTimedOut),
      Raise("ReadTimeout", ReadTimedOut),
      Reply(404, NotFound, Undecodable("ValueError")),
      Reply(404, ModelNotFoundTitle, Undecodable("ValueError")),
      Reply(500, ModelPhiNotFound, Undecodable("ValueError")),
      Reply(200, NoMsg, Undecodable("JSONDecodeError")),
      Reply(200, NoMsg, Undecodable("ValueError")),
      Reply(200, NoMsg, [error |-> Str(ModelPhiNotFound)]),
      Reply(200, NoMsg, [response |-> [num |-> 1]]) }
    \cup { Reply(200, NoMsg, [response |-> Str(r)]) : r \in Replies }

GenerateOutcomesNarrow ==
    { Raise("ConnectionError", ConnectionRefused),
      Reply(404, ModelNotFound, Undecodable("ValueError")),
      Reply(200, NoMsg, [response |-> Str(Neutral)]) }

\* what POST /api/generate may do
GenerateOutcomes == IF Concurrent THEN GenerateOutcomesNarrow ELSE GenerateOutcomesWide

(***************************************************************************)
(* The state machine.                                                      *)
(***************************************************************************)
Workers == 1..NumWorkers

NoCall == [kind |-> "none"]

NoModel == << >>

NoRequest == [model |-> NoModel, prompt |-> << >>, stream |-> FALSE]

NoCalls == [tags |-> 0, generate |-> 0, pulls |-> << >>]

Init0 ==
    /\ MODEL_NAME = Phi
    /\ pc = [w \in Workers |-> "idle"]
    /\ text = [w \in Workers |-> << >>]
    /\ probe = [w \in Workers |-> NoCall]
    /\ selected = [w \in Workers |-> NoModel]
    /\ request = [w \in Workers |-> NoRequest]
    /\ generated = [w \in Workers |-> NoCall]
    /\ calls = [w \in Workers |-> NoCalls]
    /\ response = [w \in Workers |-> NoResponse]
    /\ style = [w \in Workers |-> "none"]

\* one request at a time
Init == Init0 /\ workers = {1}

\* the thread pool serves requests side by side
InitConc == Init0 /\ workers = Workers

\* POST /analyze/ arrives at a free thread; blank text is answered at once
Receive(w, t) ==
    /\ pc[w] = "idle"
    /\ text' = [text EXCEPT ![w] = t]
    /\ probe' = [probe EXCEPT ![w] = NoCall]
    /\ selected' = [selected EXCEPT ![w] = NoModel]
    /\ request' = [request EXCEPT ![w] = NoRequest]
    /\ generated' = [generated EXCEPT ![w] = NoCall]
    /\ calls' = [calls EXCEPT ![w] = NoCalls]
    /\ style' = [style EXCEPT ![w] = "none"]
    /\ IF Strip(t) = << >>
       THEN /\ response' = [response EXCEPT ![w] = Ok(MsgNoText)]
            /\ pc' = [pc EXCEPT ![w] = "done"]
       ELSE /\ response' = [response EXCEPT ![w] = NoResponse]
            /\ pc' = [pc EXCEPT ![w] = "probe"]
    /\ UNCHANGED << MODEL_NAME, workers >>

\* GET /api/tags and the selection of the model
ProbeStep(w, o) ==
    /\ pc[w] = "probe"
    /\ probe' = [probe EXCEPT ![w] = o]
    /\ calls' = [calls EXCEPT ![w].tags = @ + 1]
    /\ MODEL_NAME' = ProbeTry(o, MODEL_NAME).model
    /\ IF ProbeTry(o, MODEL_NAME).raised
       THEN /\ response' = [response EXCEPT ![w] = Ok(MsgNotRunning)]
            /\ pc' = [pc EXCEPT ![w] = "done"]
            /\ UNCHANGED selected
       ELSE /\ selected' = [selected EXCEPT ![w] = ProbeTry(o, MODEL_NAME).model]
            /\ pc' = [pc EXCEPT ![w] = "generate"]
            /\ UNCHANGED response
    /\ UNCHANGED << workers, text, request, generated, style >>

\* the prompt is built and POST /api/generate is sent with MODEL_NAME
PostGenerate(w) ==
    /\ pc[w] = "generate"
    /\ request' = [request EXCEPT ![w] =
           [model |-> MODEL_NAME, prompt |-> Prompt(text[w]), stream |-> FALSE]]
    /\ calls' = [calls EXCEPT ![w].generate = @ + 1]
    /\ pc' = [pc EXCEPT ![w] = "await"]
    /\ UNCHANGED << MODEL_NAME, workers, text, probe, selected, generated, response,
                    style >>

\* requests.post returns or raises; extraction, or the except clauses
GenerateStep(w, o) ==
    /\ pc[w] = "await"
    /\ generated' = [generated EXCEPT ![w] = o]
    /\ LET r == GenerateTry(o)
           h == IF r.kind = "return" THEN Return(r.response) ELSE Handler(r)
       IN  /\ pc' = [pc EXCEPT ![w] = h.next]
           /\ response' = [response EXCEPT ![w] = h.response]
    /\ UNCHANGED << MODEL_NAME, workers, text, probe, selected, request, calls,
                    style >>

\* subprocess.Popen(["ollama", "pull", MODEL_NAME]) starts the download or raises
PullStep(w, started) ==
    /\ pc[w] = "pull"
    /\ IF started
       THEN /\ calls' = [calls EXCEPT ![w].pulls = Append(@, MODEL_NAME)]
            /\ pc' = [pc EXCEPT ![w] = "report"]
            /\ UNCHANGED response
       ELSE /\ response' = [response EXCEPT ![w] = Ok(MsgPullManually(MODEL_NAME))]
            /\ pc' = [pc EXCEPT ![w] = "done"]
            /\ UNCHANGED calls
    /\ UNCHANGED << MODEL_NAME, workers, text, probe, selected, request, generated,
                    style >>

\* the download runs on its own; the handler returns its message at once
ReportStep(w) ==
    /\ pc[w] = "report"
    /\ response' = [response EXCEPT ![w] = Ok(MsgDownloading(MODEL_NAME))]
    /\ pc' = [pc EXCEPT ![w] = "done"]
    /\ UNCHANGED << MODEL_NAME, workers, text, probe, selected, request, generated,
                    calls, style >>

\* the client receives the response and renders it; the thread is free again
RenderStep(w) ==
    /\ pc[w] = "done"
    /\ style' = [style EXCEPT ![w] = Render(response[w])]
    /\ pc' = [pc EXCEPT ![w] = "idle"]
    /\ UNCHANGED << MODEL_NAME, workers, text, probe, selected, request, generated,
                    calls, response >>

HealthReportsDefault(w) ==
    /\ pc[w] = "idle"
    /\ text' = [text EXCEPT ![w] = << >>]
    /\ probe' = [probe EXCEPT ![w] = NoCall]
    /\ selected' = [selected EXCEPT ![w] = NoModel]
    /\ request' = [request EXCEPT ![w] = NoRequest]
    /\ generated' = [generated EXCEPT ![w] = NoCall]
    /\ calls' = [calls EXCEPT ![w] = NoCalls]
    /\ style' = [style EXCEPT ![w] = "none"]
    /\ response' = [response EXCEPT ![w] = Health(Phi)]
    /\ pc' = [pc EXCEPT ![w] = "done"]
    /\ UNCHANGED << MODEL_NAME, workers >>

\* GET / arrives at a free thread and is answered with the current MODEL_NAME
health_check(w) ==
    /\ pc[w] = "idle"
    /\ text' = [text EXCEPT ![w] = << >>]
    /\ probe' = [probe EXCEPT ![w] = NoCall]
    /\ selected' = [selected EXCEPT ![w] = NoModel]
    /\ request' = [request EXCEPT ![w] = NoRequest]
    /\ generated' = [generated EXCEPT ![w] = NoCall]
    /\ calls' = [calls EXCEPT ![w] = NoCalls]
    /\ style' = [style EXCEPT ![w] = "none"]
    /\ response' = [response EXCEPT ![w] = Health(MODEL_NAME)]
    /\ pc' = [pc EXCEPT ![w] = "done"]
    /\ UNCHANGED << MODEL_NAME, workers >>

Next ==
    \/ \E w \in workers : pc[w] = "idle" /\ \E t \in Texts : Receive(w, t)
    \/ \E w \in workers : pc[w] = "probe" /\ \E o \in ProbeOutcomes : ProbeStep(w, o)
    \/ \E w \in workers : PostGenerate(w)
    \/ \E w \in workers : pc[w] = "await" /\ \E o \in GenerateOutcomes : GenerateStep(w, o)
    \/ \E w \in workers : \E started \in BOOLEAN : PullStep(w, started)
    \/ \E w \in workers : ReportStep(w)
    \/ \E w \in workers : RenderStep(w)
    \/ \E w \in workers : health_check(w)

Spec == Init /\ [][Next]_vars

SpecConc == InitConc /\ [][Next]_vars

\* the steps of the handler that serves a request on thread w
Serve(w) ==
    \/ \E o \in ProbeOutcomes : ProbeStep(w, o)
    \/ PostGenerate(w)
    \/ \E o \in GenerateOutcomes : GenerateStep(w, o)
    \/ \E started \in BOOLEAN : PullStep(w, started)
    \/ ReportStep(w)

(***************************************************************************)
(* Vocabulary of the properties.                                           *)
(***************************************************************************)
\* the analyze call served by w has returned
Returned(w) == pc[w] \in {"done", "idle"} /\ HasKey(response[w], "sentiment")

\* the generation call of w was answered with a text reply
HasReply(w) ==
    /\ generated[w].kind = "reply"
    /\ generated[w].status = 200
    /\ HasKey(generated[w].body, "response")
    /\ IsStr(generated[w].body.response)

ReplyOf(w) == generated[w].body.response.str

\* case folding for comparing words: letters to lower case, long s to s
Fold(s) == [i \in 1..Len(s) |-> IF s[i] = LongS THEN "s" ELSE ToLower(s[i])]

\* the positions of s where the word kw starts, letter case ignored
Occurrences(s, kw) ==
    LET fs == Fold(s)
        fk == Fold(kw)
    IN  {i \in 1..(Len(s) - Len(kw) + 1) : SubSeq(fs, i, i + Len(kw) - 1) = fk}

NoKeyword(s) ==
    /\ Occurrences(s, Positive) = {}
    /\ Occurrences(s, Negative) = {}
    /\ Occurrences(s, Neutral) = {}

Blank(s) == \A i \in 1..Len(s) : s[i] \in {" ", "\t", "\n"}

\* the names listed by a decodable 200 reply of /api/tags
Listed(o) == {o.body.models[i].name : i \in 1..Len(o.body.models)}

\* the probe raised: the request itself, or the decoding of a 200 reply
ProbeRaised(o) ==
    \/ o.kind = "raise"
    \/ /\ o.kind = "reply"
       /\ o.status = 200
       /\ \/ HasKey(o.body, "undecodable")
          \/ /\ HasKey(o.body, "models")
             /\ \E i \in 1..Len(o.body.models) : ~HasKey(o.body.models[i], "name")

\* the probe did not deliver a usable success
ProbeFailed(o) == ProbeRaised(o) \/ (o.kind = "reply" /\ o.status # 200)

(***************************************************************************)
(* C1: when the probe of the model server fails, analyze returns the       *)
(* "Ollama is not running" diagnostic and never calls /api/generate.       *)
(***************************************************************************)
\* C1 as stated: every failing probe, a reply that is no usable success
\* included, ends the call with the diagnostic and without a generation call
C1_AnyProbeFailureStops ==
    \A w \in workers :
        (probe[w] # NoCall /\ ProbeFailed(probe[w])) =>
            /\ calls[w].generate = 0
            /\ pc[w] \in {"done", "idle"}
            /\ response[w] = Ok(MsgNotRunning)

\* C1 amended: when the probe raises (the request fails or times out, or a
\* 200 reply cannot be decoded into a list of named models), the call ends
\* with the diagnostic and /api/generate is never called in it
C1_ProbeRaiseStops ==
    \A w \in workers :
        (probe[w] # NoCall /\ ProbeRaised(probe[w])) =>
            /\ calls[w].generate = 0
            /\ calls[w].tags = 1
            /\ generated[w] = NoCall
            /\ pc[w] \in {"done", "idle"}
            /\ response[w] = Ok(MsgNotRunning)

C1_Witness ==
    \E w \in workers :
        /\ pc[w] = "done"
        /\ probe[w].kind = "reply"
        /\ probe[w].status = 200
        /\ HasKey(probe[w].body, "undecodable")
        /\ response[w] = Ok(MsgNotRunning)

(***************************************************************************)
(* C2: a reply that contains the word Neutral is answered with "Neutral".  *)
(***************************************************************************)
\* C2 as stated: whatever else the reply contains, a reply with "neutral" in
\* it, in any letter case, yields exactly Neutral
C2_NeutralAnywhere ==
    \A w \in workers :
        (Returned(w) /\ HasReply(w) /\ Contains(Lower(ReplyOf(w)), Lower(Neutral))) =>
            response[w] = Ok(Neutral)

\* C2 amended: a reply in which Neutral occurs, in any letter case, and in
\* which no occurrence of Positive or Negative starts before the first
\* occurrence of Neutral, yields exactly Neutral
C2_NeutralFirst ==
    \A w \in workers :
        (Returned(w) /\ HasReply(w) /\ Occurrences(ReplyOf(w), Neutral) # {}) =>
            LET first == Min(Occurrences(ReplyOf(w), Neutral))
            IN  (\A j \in Occurrences(ReplyOf(w), Positive) \cup Occurrences(ReplyOf(w), Negative) :
                    j > first)
                => response[w] = Ok(Neutral)

C2_Witness ==
    \E w \in workers :
        /\ Returned(w) /\ HasReply(w)
        /\ Occurrences(ReplyOf(w), Neutral) # {}
        /\ Occurrences(ReplyOf(w), Negative) # {}
        /\ response[w] = Ok(Neutral)

(***************************************************************************)
(* C3: a reply without a keyword is answered with its first 50 characters. *)
(***************************************************************************)
\* C3 as stated: the result is the prefix of the reply exactly as the model
\* server sent it
C3_RawPrefix ==
    \A w \in workers :
        (Returned(w) /\ HasReply(w) /\ NoKeyword(ReplyOf(w))) =>
            response[w] = Ok(Prefix(ReplyOf(w), FallbackLen))

\* C3 amended: the result is the first 50 characters of the reply after its
\* leading and trailing whitespace has been removed
C3_StrippedPrefix ==
    \A w \in workers :
        (Returned(w) /\ HasReply(w) /\ NoKeyword(ReplyOf(w))) =>
            /\ response[w] = Ok(Prefix(Strip(ReplyOf(w)), FallbackLen))
            /\ Len(response[w].sentiment) <= FallbackLen

C3_Witness ==
    \E w \in workers :
        /\ Returned(w) /\ HasReply(w) /\ NoKeyword(ReplyOf(w))
        /\ Len(ReplyOf(w)) > FallbackLen
        /\ IsSpace(ReplyOf(w)[1])
        /\ Len(Strip(ReplyOf(w))) > FallbackLen
        /\ Len(response[w].sentiment) = FallbackLen
        /\ response[w].sentiment[1] = "a"

(***************************************************************************)
(* C4: the selection step sets MODEL_NAME to the first candidate of the    *)
(* priority list that the server lists, and leaves it alone if none is.    *)
(***************************************************************************)
C4_SelectionStep ==
    \A w \in workers :
        (/\ pc[w] = "probe" /\ pc'[w] = "generate"
         /\ probe'[w].status = 200) =>
            LET listed == IF HasKey(probe'[w].body, "models") THEN Listed(probe'[w]) ELSE {}
                cands  == {k \in 1..4 : << Phi, TinyLlama, Gemma2b, Llama2 >>[k] \in listed}
            IN  IF cands = {}
                THEN MODEL_NAME' = MODEL_NAME
                ELSE \E k \in cands :
                        /\ \A j \in cands : k <= j
                        /\ MODEL_NAME' = << Phi, TinyLlama, Gemma2b, Llama2 >>[k]

\* C4: in every successful probe step the selection is the first listed
\* candidate, or the previous selection when no candidate is listed
C4_FirstListedCandidate == [][C4_SelectionStep]_vars

C4_Witness ==
    \E w \in workers :
        /\ pc[w] = "generate"
        /\ probe[w].status = 200
        /\ HasKey(probe[w].body, "models")
        /\ TinyLlama \in Listed(probe[w])
        /\ Phi \notin Listed(probe[w])
        /\ MODEL_NAME = TinyLlama

(***************************************************************************)
(* C5: blank text is answered at once.                                     *)
(***************************************************************************)
C5_BlankStep ==
    \A w \in workers :
        (/\ pc[w] = "idle" /\ pc'[w] # "idle"
         /\ ~HasKey(response'[w], "health")
         /\ Blank(text'[w])) =>
            /\ pc'[w] = "done"
            /\ response'[w] = Ok(MsgNoText)
            /\ calls'[w] = NoCalls
            /\ MODEL_NAME' = MODEL_NAME

\* C5: a request whose text is empty or all whitespace is answered with the
\* "please provide text" message in the step that receives it, with no call
\* to the model server, no download and MODEL_NAME unchanged
C5_BlankTextShortCircuit == [][C5_BlankStep]_vars

C5_Witness ==
    \E w \in workers :
        /\ pc[w] = "done"
        /\ text[w] = << "\n", " ", "\t" >>
        /\ response[w] = Ok(MsgNoText)
        /\ calls[w] = NoCalls

(***************************************************************************)
(* C6: every analyze call ends with one plain-text result in a reply of    *)
(* status 200, whatever the model server does.                             *)
(***************************************************************************)
\* how far a thread is through analyze_sentiment
Rank(p) ==
    CASE p = "idle" -> 0
      [] p = "probe" -> 1
      [] p = "generate" -> 2
      [] p = "await" -> 3
      [] p = "pull" -> 4
      [] p = "report" -> 5
      [] p = "done" -> 6

C6_State ==
    \A w \in workers :
        /\ pc[w] \in {"probe", "generate", "await", "pull", "report"} =>
               /\ response[w] = NoResponse
               /\ ENABLED Serve(w)
        /\ pc[w] = "done" =>
               /\ response[w].status = 200
               /\ HasKey(response[w], "sentiment") \/ HasKey(response[w], "health")
               /\ HasKey(response[w], "sentiment") =>
                      (DOMAIN response[w].sentiment = 1..Len(response[w].sentiment))

C6_Step ==
    \A w \in workers :
        /\ (pc[w] \notin {"idle", "done"} /\ pc'[w] # pc[w]) => Rank(pc'[w]) > Rank(pc[w])
        /\ response'[w] # response[w] => (pc'[w] = "done" \/ pc[w] = "idle")

\* C6: a call in progress has produced no result yet and can always take its
\* next step, every step takes it further towards its end, and a finished
\* call has exactly one result, of status 200 with a text in its sentiment
\* field
C6_AlwaysOneResult == []C6_State /\ [][C6_Step]_vars

C6_Witness ==
    \E w \in workers :
        /\ pc[w] = "done"
        /\ generated[w].kind = "reply"
        /\ generated[w].status = 200
        /\ HasKey(generated[w].body, "response")
        /\ ~IsStr(generated[w].body.response)
        /\ response[w] = Ok(MsgUnexpected)

(***************************************************************************)
(* C7: the styling the client gives to a returned sentiment string.        *)
(***************************************************************************)
HasErrorWord(s) ==
    \E i \in 1..(Len(s) - 4) :
        s[i] = "E" /\ s[i + 1] = "r" /\ s[i + 2] = "r" /\ s[i + 3] = "o" /\ s[i + 4] = "r"

\* C7: Positive is styled success, Negative error, Neutral info, any other
\* string with "Error" in it error, and every remaining string warning
C7_FixedMapping ==
    \A w \in workers :
        (pc[w] = "idle" /\ style[w] # "none" /\ HasKey(response[w], "sentiment")) =>
            LET s == response[w].sentiment
            IN  /\ s = Positive => style[w] = "success"
                /\ s = Negative => style[w] = "error"
                /\ s = Neutral => style[w] = "info"
                /\ (s \notin {Positive, Negative, Neutral} /\ HasErrorWord(s)) =>
                       style[w] = "error"
                /\ (s \notin {Positive, Negative, Neutral} /\ ~HasErrorWord(s)) =>
                       style[w] = "warning"

C7_Witness ==
    \E w \in workers :
        /\ pc[w] = "idle"
        /\ HasKey(response[w], "sentiment")
        /\ response[w].sentiment = << "E", "r", "r", "o", "r", ":", " ", "x" >>
        /\ style[w] = "error"

(***************************************************************************)
(* C8: the model sent to /api/generate is the one the same call selected.  *)
(***************************************************************************)
\* C8: once a call has posted its generation request, the model named in the
\* request is the model its own selection step established
C8_OwnSelection ==
    \A w \in workers :
        pc[w] \in {"await", "pull", "report"} => request[w].model = selected[w]

(***************************************************************************)
(* C9: when a download is started, and what the other failures return.     *)
(***************************************************************************)
\* the text of the failure of the generation call
FailText(o) ==
    IF o.kind = "raise" THEN o.msg
    ELSE IF o.kind = "reply" /\ o.status >= 400 THEN o.reason
    ELSE << >>

SaysModelNotFound(o) ==
    \E i \in 1..(Len(FailText(o)) - 14) :
        SubSeq(Fold(FailText(o)), i, i + 14) = ModelNotFound

ConnectionFailure(o) ==
    o.kind = "raise" /\ o.cls \in {"ConnectionError", "ConnectTimeout"}

OtherTransportFailure(o) ==
    /\ ~ConnectionFailure(o)
    /\ ~SaysModelNotFound(o)
    /\ \/ o.kind = "raise" /\ o.cls = "ReadTimeout"
       \/ o.kind = "reply" /\ o.status >= 400
       \/ /\ o.kind = "reply"
          /\ o.status = 200
          /\ HasKey(o.body, "undecodable")
          /\ o.body.undecodable = "JSONDecodeError"

C9_State ==
    \A w \in workers :
        /\ Len(calls[w].pulls) <= 1
        /\ calls[w].pulls # << >> =>
               /\ SaysModelNotFound(generated[w])
               /\ ~ConnectionFailure(generated[w])
               /\ pc[w] \in {"report", "done", "idle"}
               /\ pc[w] \in {"done", "idle"} =>
                      \E m \in {Phi, TinyLlama, Gemma2b, Llama2} :
                          response[w] = Ok(MsgDownloading(m))
        /\ (Returned(w) /\ ConnectionFailure(generated[w])) =>
               response[w] = Ok(MsgCannotConnect) /\ calls[w].pulls = << >>
        /\ (Returned(w) /\ OtherTransportFailure(generated[w])) =>
               response[w] = Ok(MsgRequestError) /\ calls[w].pulls = << >>

C9_Step ==
    \A w \in workers :
        (calls'[w].pulls # calls[w].pulls /\ calls'[w].pulls # << >>) =>
            /\ pc[w] = "pull"
            /\ calls'[w].pulls = << MODEL_NAME >>

C10_HealthStep ==
    \A w \in workers :
        (pc[w] = "idle" /\ pc'[w] = "done" /\ HasKey(response'[w], "health")) =>
            /\ response'[w].model = MODEL_NAME
            /\ response'[w].status = 200
            /\ MODEL_NAME' = MODEL_NAME

\* C10: MODEL_NAME starts as phi and is always one of phi, tinyllama,
\* gemma:2b, llama2; GET / reports its current value and leaves it unchanged
C10_ModelNameInvariant ==
    /\ MODEL_NAME = Phi
    /\ [](MODEL_NAME \in {Phi, TinyLlama, Gemma2b, Llama2})
    /\ [][C10_HealthStep]_vars

C10_Witness ==
    \E w \in workers :
        /\ pc[w] = "done"
        /\ HasKey(response[w], "health")
        /\ response[w].model = Llama2
        /\ MODEL_NAME = Llama2

=============================================================================
